---- MODULE Spec2Model ----
(***************************************************************************)
(* Retrieval core of rust-rag: the sentence-aware chunker                  *)
(* (chunk/src/data.rs), the BM25 index and the hybrid BM25 + dense fusion  *)
(* (lexical/src/hybrid.rs), the iterative query refinement                 *)
(* (iterative/src/retrieval.rs, iterative/src/vector_db.rs), the           *)
(* fixed-size chunker and dataset loader (metadata/src/data.rs), the dense *)
(* retrieval with a distance threshold (retrieval/src/vector_db.rs), and   *)
(* the date conversion and metadata search (metadata/src/vector_db.rs).    *)
(*                                                                         *)
(* A text is a sequence of one-character strings.  Offsets into a text are *)
(* 0-based as in the source; TLA+ sequences are 1-based, so the character  *)
(* at offset k is text[k + 1].                                             *)
(***************************************************************************)
EXTENDS Integers, Sequences, FiniteSets, TLC

VARIABLES
    text,        \* chunk_text: the input text
    chunk_size,  \* chunk_text: the target size, in words
    overlap,     \* chunk_text: the overlap, in words
    chunks,      \* chunk_text: the returned Vec<String>
    cerr,        \* chunk_text: "none", or "panic" when the call panicked
    cpc,         \* "idle", "call" before chunk_text has run, "done" after
    b_scores,    \* hybrid_retrieval: bm25.score(query), one score per chunk
    top_k,       \* hybrid_retrieval: number of results asked for
    alpha,       \* hybrid_retrieval: weight on BM25
    b_min,       \* hybrid_retrieval: smallest BM25 score
    b_max,       \* hybrid_retrieval: largest BM25 score
    denom,       \* hybrid_retrieval: normalization range
    n_results,   \* hybrid_retrieval: QueryOptions.n_results
    res,         \* hybrid_retrieval: the QueryResult of collection.query
    scored,      \* hybrid_retrieval: merged as collected, before the sort
    merged,      \* hybrid_retrieval: the returned Vec<(usize, f32)>
    hpc,         \* "idle", "call", "query" (awaiting the index), "done", "failed"
    q_emb,          \* Bm25Index::score: the embedding of the query
    doc_embeddings, \* Bm25Index: one sparse embedding per chunk, in build order
    scores,         \* Bm25Index::score: the returned Vec<f32>
    bpc,            \* "idle", "call" before score has run, "done" after
    kw_chunk,       \* extract_refinement_keywords: chunk_text
    kw_query,       \* extract_refinement_keywords: current_query
    keywords,       \* extract_refinement_keywords: the returned Vec<String>
    kpc,            \* "idle", "call" before the extraction has run, "done" after
    initial_query,         \* iterative_retrieval: initial_query
    steps,                 \* iterative_retrieval: steps
    improvement_threshold, \* iterative_retrieval: improvement_threshold
    max_chunks,            \* iterative_retrieval: max_chunks
    step,                  \* iterative_retrieval: the loop variable of 1..=steps
    current_query,         \* iterative_retrieval: current_query
    best_score,            \* iterative_retrieval: best_score
    results,               \* iterative_retrieval: results
    qres,                  \* retrieve_best_chunk: the QueryResult of the last query
    calls,                 \* number of retrieve_best_chunk calls made so far
    stop,                  \* why the loop was left: "" while it runs
    ipc,         \* "idle", "loop" (loop head), "await" (retrieving), "done", "failed"
    fx_text,     \* fixed-size chunk_text: text
    fx_size,     \* fixed-size chunk_text: chunk_size
    fx_chunks,   \* fixed-size chunk_text: the returned Vec<String>
    fxpc,        \* "idle", "call", "done", or "panic"
    documents,   \* load_and_chunk_dataset: the documents read from the file
    ld_size,     \* load_and_chunk_dataset: chunk_size
    all_chunks,  \* load_and_chunk_dataset: all_chunks
    lpc,         \* "idle", "call", "done", "failed" (Err), or "panic"
    rt_top_k,         \* retrieve_top_chunks: top_k
    rt_category,      \* retrieve_top_chunks: category_filter
    rt_threshold,     \* retrieve_top_chunks: distance_threshold
    rt_options,       \* retrieve_top_chunks: the QueryOptions sent to the index
    rt_result,        \* retrieve_top_chunks: query_result
    retrieved_chunks, \* retrieve_top_chunks: retrieved_chunks
    rtpc,             \* "idle", "call", "query" (awaiting the index), "done", "failed"
    date_str,    \* iso8601_to_timestamp: date_str
    timestamp,   \* iso8601_to_timestamp: the returned Option<i64>
    iso,         \* timestamp_to_iso8601: the returned String
    dpc,         \* "idle", "call", "converted", "done"
    md_categories, \* metadata_enhanced_search: categories
    min_date,      \* metadata_enhanced_search: min_date
    md_top_k,      \* metadata_enhanced_search: top_k
    where_clause,  \* metadata_enhanced_search: where_clause
    md_result,     \* metadata_enhanced_search: result of collection.query
    md_chunks,     \* metadata_enhanced_search: the returned Vec<RetrievedChunk>
    mpc            \* "idle", "call", "query" (awaiting the index), "done", "failed"

chunk_vars == <<text, chunk_size, overlap, chunks, cerr, cpc>>
hybrid_vars == <<b_scores, top_k, alpha, b_min, b_max, denom, n_results, res,
                 scored, merged, hpc>>
bm25_vars == <<q_emb, doc_embeddings, scores, bpc>>
keyword_vars == <<kw_chunk, kw_query, keywords, kpc>>
iter_vars == <<initial_query, steps, improvement_threshold, max_chunks, step,
               current_query, best_score, results, qres, calls, stop, ipc>>
fixed_vars == <<fx_text, fx_size, fx_chunks, fxpc>>
load_vars == <<documents, ld_size, all_chunks, lpc>>
retrieve_vars == <<rt_top_k, rt_category, rt_threshold, rt_options, rt_result,
                   retrieved_chunks, rtpc>>
date_vars == <<date_str, timestamp, iso, dpc>>
search_vars == <<md_categories, min_date, md_top_k, where_clause, md_result,
                 md_chunks, mpc>>
vars == <<chunk_vars, hybrid_vars, bm25_vars, keyword_vars, iter_vars,
          fixed_vars, load_vars, retrieve_vars, date_vars, search_vars>>

\* Each entry point is modelled by its own specification; the variables of
\* the other entry points stay idle in it.

not_chunk_vars ==
    <<hybrid_vars, bm25_vars, keyword_vars, iter_vars, fixed_vars,
      load_vars, retrieve_vars, date_vars, search_vars>>
not_hybrid_vars ==
    <<chunk_vars, bm25_vars, keyword_vars, iter_vars, fixed_vars,
      load_vars, retrieve_vars, date_vars, search_vars>>
not_bm25_vars ==
    <<chunk_vars, hybrid_vars, keyword_vars, iter_vars, fixed_vars,
      load_vars, retrieve_vars, date_vars, search_vars>>
not_keyword_vars ==
    <<chunk_vars, hybrid_vars, bm25_vars, iter_vars, fixed_vars,
      load_vars, retrieve_vars, date_vars, search_vars>>
not_iter_vars ==
    <<chunk_vars, hybrid_vars, bm25_vars, keyword_vars, fixed_vars,
      load_vars, retrieve_vars, date_vars, search_vars>>
not_fixed_vars ==
    <<chunk_vars, hybrid_vars, bm25_vars, keyword_vars, iter_vars,
      load_vars, retrieve_vars, date_vars, search_vars>>
not_load_vars ==
    <<chunk_vars, hybrid_vars, bm25_vars, keyword_vars, iter_vars,
      fixed_vars, retrieve_vars, date_vars, search_vars>>
not_retrieve_vars ==
    <<chunk_vars, hybrid_vars, bm25_vars, keyword_vars, iter_vars,
      fixed_vars, load_vars, date_vars, search_vars>>
not_date_vars ==
    <<chunk_vars, hybrid_vars, bm25_vars, keyword_vars, iter_vars,
      fixed_vars, load_vars, retrieve_vars, search_vars>>
not_search_vars ==
    <<chunk_vars, hybrid_vars, bm25_vars, keyword_vars, iter_vars,
      fixed_vars, load_vars, retrieve_vars, date_vars>>

FixedIdle ==
    /\ fx_text = <<>>
    /\ fx_size = 0
    /\ fx_chunks = <<>>
    /\ fxpc = "idle"

LoadIdle ==
    /\ documents = <<>>
    /\ ld_size = 0
    /\ all_chunks = <<>>
    /\ lpc = "idle"

RetrieveIdle ==
    /\ rt_top_k = 0
    /\ rt_category = <<>>
    /\ rt_threshold = <<>>
    /\ rt_options = <<>>
    /\ rt_result = <<>>
    /\ retrieved_chunks = <<>>
    /\ rtpc = "idle"

DateIdle ==
    /\ date_str = <<>>
    /\ timestamp = <<>>
    /\ iso = <<>>
    /\ dpc = "idle"

SearchIdle ==
    /\ md_categories = <<>>
    /\ min_date = <<>>
    /\ md_top_k = 0
    /\ where_clause = <<>>
    /\ md_result = <<>>
    /\ md_chunks = <<>>
    /\ mpc = "idle"

\* the entry points outside the chunker, the hybrid retrieval, the BM25
\* index and the query refinement are idle
OthersIdle == FixedIdle /\ LoadIdle /\ RetrieveIdle /\ DateIdle /\ SearchIdle

Bm25Idle ==
    /\ q_emb = <<>>
    /\ doc_embeddings = <<>>
    /\ scores = <<>>
    /\ bpc = "idle"

KeywordIdle ==
    /\ kw_chunk = <<>>
    /\ kw_query = <<>>
    /\ keywords = <<>>
    /\ kpc = "idle"

IterIdle ==
    /\ initial_query = <<>>
    /\ steps = 0
    /\ improvement_threshold = <<0, 1>>
    /\ max_chunks = 0
    /\ step = 0
    /\ current_query = <<>>
    /\ best_score = <<0, 1>>
    /\ results = <<>>
    /\ qres = [documents |-> <<>>, distances |-> <<>>]
    /\ calls = 0
    /\ stop = ""
    /\ ipc = "idle"

----------------------------------------------------------------------------
(* Bounds of the chunker's inputs *)

MaxTokens == 5
MaxChunkSize == 3
MaxOverlap == 2

----------------------------------------------------------------------------
(* Characters *)

Whitespace == {" ", "\n"}
Terminators == {".", "!", "?"}

SetMin(S) == CHOOSE x \in S : \A y \in S : x <= y
SetMax(S) == CHOOSE x \in S : \A y \in S : x >= y
Min2(a, b) == IF a <= b THEN a ELSE b

\* str::trim
trim(s) ==
    LET keep == {k \in 1..Len(s) : s[k] \notin Whitespace}
    IN  IF keep = {} THEN <<>> ELSE SubSeq(s, SetMin(keep), SetMax(keep))

RECURSIVE split_from(_, _, _, _)
split_from(s, k, cur, acc) ==
    IF k > Len(s)
    THEN IF cur = <<>> THEN acc ELSE Append(acc, cur)
    ELSE IF s[k] \in Whitespace
         THEN split_from(s, k + 1, <<>>, IF cur = <<>> THEN acc ELSE Append(acc, cur))
         ELSE split_from(s, k + 1, Append(cur, s[k]), acc)

\* str::split_whitespace: the maximal runs of non-whitespace characters
split_whitespace(s) == split_from(s, 1, <<>>, <<>>)

\* sentence.split_whitespace().count()
sentence_words(sentence) == Len(split_whitespace(sentence))

----------------------------------------------------------------------------
(* Regex (.*?[.!?])\s+ : '.' matches every character but "\n"; the lazy   *)
(* group stops at the first terminator that is followed by whitespace; the *)
(* trailing \s+ is greedy.                                                 *)

\* offsets p >= pos of a terminator followed by whitespace
Boundaries(t, pos) ==
    {p \in pos..(Len(t) - 2) : t[p + 1] \in Terminators /\ t[p + 2] \in Whitespace}

\* leftmost offset >= pos from which .*? reaches offset p without crossing "\n"
MatchStart(t, pos, p) ==
    LET nl == {k \in pos..(p - 1) : t[k + 1] = "\n"}
    IN  IF nl = {} THEN pos ELSE SetMax(nl) + 1

\* offset just past the whitespace run that follows the terminator at p
MatchEnd(t, p) ==
    SetMin({e \in (p + 2)..Len(t) : e = Len(t) \/ t[e + 1] \notin Whitespace})

RECURSIVE find_iter(_, _)
find_iter(t, pos) ==
    LET B == Boundaries(t, pos)
    IN  IF B = {} THEN <<>>
        ELSE LET p == SetMin(B)
                 s == MatchStart(t, pos, p)
                 e == MatchEnd(t, p)
             IN  <<[start |-> s, end |-> e]>> \o find_iter(t, e)

\* text[from..to] with 0-based, end-exclusive offsets
Slice(t, from, to) == SubSeq(t, from + 1, to)

\* the sentence list built from the regex matches and the trailing fragment
split_sentences(t) ==
    LET mats == find_iter(t, 0)
        matched == [k \in 1..Len(mats) |-> trim(Slice(t, mats[k].start, mats[k].end))]
        last_end == IF mats = <<>> THEN 0 ELSE mats[Len(mats)].end
        remaining == trim(Slice(t, last_end, Len(t)))
        withRest == IF last_end < Len(t) /\ remaining # <<>>
                    THEN Append(matched, remaining) ELSE matched
    IN  IF withRest = <<>> /\ trim(t) # <<>> THEN <<trim(t)>> ELSE withRest

----------------------------------------------------------------------------
(* The chunking loop *)

\* String::push(' ') then push_str(sentence), the space only on a non-empty chunk
push_sentence(current_chunk, sentence) ==
    IF current_chunk # <<>> THEN current_chunk \o <<" ">> \o sentence ELSE sentence

exceeds_chunk_size_off_by_one(word_count, n, size, current_chunk) ==
    word_count + n > size + 1 /\ current_chunk # <<>>

exceeds_chunk_size_any_chunk(word_count, n, size, current_chunk) ==
    word_count + n > size

\* the break test of the inner while loop
exceeds_chunk_size(word_count, n, size, current_chunk) ==
    word_count + n > size /\ current_chunk # <<>>

RECURSIVE fill_chunk(_, _, _)
fill_chunk(sentences, size, st) ==
    IF st.sentence_index >= Len(sentences) THEN st
    ELSE LET sentence == sentences[st.sentence_index + 1]
             n == sentence_words(sentence)
         IN  IF exceeds_chunk_size(st.word_count, n, size, st.current_chunk) THEN st
             ELSE fill_chunk(sentences, size,
                     [st EXCEPT !.current_chunk = push_sentence(@, sentence),
                                !.word_count = @ + n,
                                !.sentence_index = @ + 1])

\* the backward walk over the consumed sentences
RECURSIVE walk_back(_, _, _, _)
walk_back(sentences, ov, temp_index, overlap_words) ==
    IF temp_index > 0 /\ overlap_words < ov
    THEN walk_back(sentences, ov, temp_index - 1,
                   overlap_words + sentence_words(sentences[temp_index]))
    ELSE [temp_index |-> temp_index, overlap_words |-> overlap_words]

RECURSIVE join_sentences(_)
join_sentences(ss) ==
    IF ss = <<>> THEN <<>>
    ELSE IF Len(ss) = 1 THEN ss[1]
    ELSE ss[1] \o <<" ">> \o join_sentences(Tail(ss))

\* "Move sentence_index back to include overlap"
seed_overlap(sentences, ov, st) ==
    IF ov > 0
    THEN LET w == walk_back(sentences, ov, st.sentence_index, 0)
             sentence_index == w.temp_index
             joined == join_sentences(SubSeq(sentences, w.temp_index + 1, sentence_index))
         IN  [st EXCEPT !.sentence_index = sentence_index,
                        !.word_count = w.overlap_words,
                        !.current_chunk = IF joined # <<>> THEN joined \o <<" ">> ELSE joined]
    ELSE [st EXCEPT !.word_count = 0, !.current_chunk = <<>>]

\* "If we have content, add the chunk"
close_chunk(st) ==
    IF st.current_chunk # <<>>
    THEN [st EXCEPT !.chunks = Append(@, st.current_chunk), !.word_count = 0]
    ELSE st

\* for i in (0..words.len()).step_by(step)
RECURSIVE chunk_loop(_, _, _, _, _, _)
chunk_loop(sentences, nwords, size, ov, i, st) ==
    IF i >= nwords THEN st
    ELSE LET end == Min2(i + size, nwords)
             filled == fill_chunk(sentences, size, [st EXCEPT !.current_chunk = <<>>])
             closed == close_chunk(filled)
         IN  IF closed.sentence_index >= Len(sentences) /\ end >= nwords
             THEN closed
             ELSE chunk_loop(sentences, nwords, size, ov, i + (size - ov),
                             seed_overlap(sentences, ov, closed))

RECURSIVE push_rest(_, _, _)
push_rest(sentences, sentence_index, current_chunk) ==
    IF sentence_index < Len(sentences)
    THEN push_rest(sentences, sentence_index + 1,
                   push_sentence(current_chunk, sentences[sentence_index + 1]))
    ELSE current_chunk

\* "Add any remaining content"
remaining_content(sentences, st) ==
    IF st.current_chunk # <<>> /\ st.sentence_index < Len(sentences)
    THEN Append(st.chunks, trim(push_rest(sentences, st.sentence_index, st.current_chunk)))
    ELSE st.chunks

edge_case_no_zero_test(t, size, ov) ==
    IF ov >= size THEN [hit |-> TRUE, result |-> <<t>>]
    ELSE [hit |-> FALSE, result |-> <<>>]

edge_case_zero_keeps_text(t, size, ov) ==
    IF size = 0 THEN [hit |-> TRUE, result |-> <<t>>]
    ELSE IF ov >= size THEN [hit |-> TRUE, result |-> <<t>>]
    ELSE [hit |-> FALSE, result |-> <<>>]

edge_case_trimmed(t, size, ov) ==
    IF size = 0 THEN [hit |-> TRUE, result |-> <<>>]
    ELSE IF ov >= size THEN [hit |-> TRUE, result |-> <<trim(t)>>]
    ELSE [hit |-> FALSE, result |-> <<>>]

\* the two early returns of chunk_text, in the order the code tests them
edge_case(t, size, ov) ==
    IF size = 0 THEN [hit |-> TRUE, result |-> <<>>]
    ELSE IF ov >= size THEN [hit |-> TRUE, result |-> <<t>>]
    ELSE [hit |-> FALSE, result |-> <<>>]

chunk_text(t, size, ov) ==
    LET edge == edge_case(t, size, ov) IN
    IF edge.hit THEN edge.result
    ELSE LET sentences == split_sentences(t)
             words == split_whitespace(t)
             st0 == [chunks |-> <<>>, sentence_index |-> 0, word_count |-> 0,
                     current_chunk |-> <<>>]
         IN  IF words = <<>> THEN <<>>
             ELSE remaining_content(sentences,
                      chunk_loop(sentences, Len(words), size, ov, 0, st0))

\* Iterator::step_by panics on a step of 0
chunk_text_panics(t, size, ov) ==
    /\ ~edge_case(t, size, ov).hit
    /\ split_whitespace(t) # <<>>
    /\ size - ov = 0

----------------------------------------------------------------------------
(* Input texts: up to MaxTokens tokens, each followed by a separator; the  *)
(* text may start with whitespace and may lack the final separator.        *)

Tokens == {<<"a">>, <<"b", ".">>}
Separators == {<<" ">>, <<"\n">>}

RECURSIVE Concat(_)
Concat(ss) == IF ss = <<>> THEN <<>> ELSE Head(ss) \o Concat(Tail(ss))

Pieces == {tok \o sep : tok \in Tokens, sep \in Separators}

PieceSeqs == UNION {[1..n -> Pieces] : n \in 0..MaxTokens}

DropLast(s) == IF s = <<>> THEN s ELSE SubSeq(s, 1, Len(s) - 1)

Leads == {<<>>, <<" ">>, <<"\n">>}

Texts ==
    {lead \o (IF trail THEN Concat(ps) ELSE DropLast(Concat(ps))) :
        ps \in PieceSeqs, lead \in Leads, trail \in BOOLEAN}

\* "one two three four five six"
ExampleText ==
    <<"o","n","e"," ","t","w","o"," ","t","h","r","e","e"," ",
      "f","o","u","r"," ","f","i","v","e"," ","s","i","x">>

----------------------------------------------------------------------------
(* Specification of the chunker *)

HybridIdle ==
    /\ b_scores = <<>>
    /\ top_k = 0
    /\ alpha = <<0, 1>>
    /\ b_min = <<0, 1>>
    /\ b_max = <<0, 1>>
    /\ denom = <<0, 1>>
    /\ n_results = 0
    /\ res = [ids |-> <<>>, distances |-> <<>>, has_distances |-> FALSE]
    /\ scored = <<>>
    /\ merged = <<>>
    /\ hpc = "idle"

ChunkInit ==
    /\ HybridIdle
    /\ Bm25Idle
    /\ KeywordIdle
    /\ IterIdle
    /\ OthersIdle
    /\ text \in Texts \cup {ExampleText}
    /\ chunk_size \in 0..MaxChunkSize
    /\ overlap \in 0..MaxOverlap
    /\ chunks = <<>>
    /\ cerr = "none"
    /\ cpc = "call"

ChunkText ==
    /\ cpc = "call"
    /\ chunks' = chunk_text(text, chunk_size, overlap)
    /\ cerr' = IF chunk_text_panics(text, chunk_size, overlap) THEN "panic" ELSE "none"
    /\ cpc' = "done"
    /\ UNCHANGED <<text, chunk_size, overlap>>
    /\ UNCHANGED not_chunk_vars

ChunkNext == ChunkText

ChunkSpec == ChunkInit /\ [][ChunkNext]_vars

----------------------------------------------------------------------------
(* Properties of the chunker *)

Range(f) == {f[k] : k \in DOMAIN f}

\* the words of the chunks, each chunk dropping the k words it repeats from
\* the end of what came before, are exactly the target words
RECURSIVE Reassembles(_, _, _)
Reassembles(acc, cws, target) ==
    IF cws = <<>> THEN acc = target
    ELSE \E k \in 0..Min2(Len(Head(cws)), Len(acc)) :
            /\ SubSeq(Head(cws), 1, k) = SubSeq(acc, Len(acc) - k + 1, Len(acc))
            /\ Reassembles(acc \o SubSeq(Head(cws), k + 1, Len(Head(cws))), Tail(cws), target)

ChunkWords(cs) == [k \in 1..Len(cs) |-> split_whitespace(cs[k])]

RegularCall == cpc = "done" /\ chunk_size > 0 /\ overlap < chunk_size

\* C1: for a non-empty text, chunk_size > 0 and overlap < chunk_size, the
\* words of the returned chunks, overlap repeats counted once, are exactly
\* the whitespace-separated words of the text in order.
C1_ChunkCoverage ==
    (RegularCall /\ text # <<>>) =>
        Reassembles(<<>>, ChunkWords(chunks), split_whitespace(text))

\* C2: for chunk_size > 0 and overlap < chunk_size, every returned chunk has
\* at most chunk_size words unless it is exactly one sentence that is itself
\* longer than chunk_size words.
C2_ChunkSizeBound ==
    RegularCall =>
        \A k \in 1..Len(chunks) :
            \/ sentence_words(chunks[k]) <= chunk_size
            \/ chunks[k] \in Range(split_sentences(text))

C2_Witness ==
    /\ RegularCall
    /\ \E k \in 1..Len(chunks) : sentence_words(chunks[k]) > chunk_size
    /\ \E k \in 1..Len(chunks) :
          /\ sentence_words(chunks[k]) = chunk_size
          /\ chunks[k] \notin Range(split_sentences(text))

\* C3 as stated: for every chunk_size and every overlap, an empty or
\* whitespace-only text yields no chunk.
C3_EmptyInputAnyOverlap ==
    (cpc = "done" /\ trim(text) = <<>>) => chunks = <<>>

\* C3 amended: an empty or whitespace-only text yields no chunk when
\* chunk_size = 0 or overlap < chunk_size; when overlap >= chunk_size > 0 the
\* single chunk returned is the input text itself.
C3_EmptyInput ==
    (cpc = "done" /\ trim(text) = <<>>) =>
        IF chunk_size = 0 \/ overlap < chunk_size
        THEN chunks = <<>>
        ELSE chunks = <<text>>

C3_Witness ==
    /\ RegularCall
    /\ text # <<>>
    /\ trim(text) = <<>>
    /\ chunks = <<>>

\* C4: for chunk_size > 0 and overlap >= chunk_size, exactly one chunk is
\* returned and it is the whole input text.
C4_DegenerateOverlap ==
    (cpc = "done" /\ chunk_size > 0 /\ overlap >= chunk_size) => chunks = <<text>>

C4_Witness ==
    /\ cpc = "done"
    /\ chunk_size > 0
    /\ overlap >= chunk_size
    /\ Len(split_sentences(text)) >= 2
    /\ chunks = <<text>>

\* C5: with chunk_size = 0 the chunker returns no chunk, for every text and
\* every overlap, and does not panic.
C5_ZeroTargetSize ==
    (cpc = "done" /\ chunk_size = 0) => (chunks = <<>> /\ cerr = "none")

C5_Witness ==
    /\ cpc = "done"
    /\ chunk_size = 0
    /\ overlap > 0
    /\ split_whitespace(text) # <<>>
    /\ chunks = <<>>

ExampleCall == cpc = "done" /\ text = ExampleText /\ chunk_size = 3 /\ overlap = 0

\* "one two three", "four five six"
ExampleHalves == <<SubSeq(ExampleText, 1, 13), SubSeq(ExampleText, 15, 27)>>

\* C6 as stated: the six-word example text with chunk_size 3 and overlap 0
\* is split into "one two three" and "four five six".
C6_WorkedExampleSplit ==
    ExampleCall => chunks = ExampleHalves

\* C6 amended: the six-word example text has no sentence boundary, it is a
\* single sentence and comes back whole as the only chunk.
C6_WorkedExample ==
    ExampleCall => chunks = <<ExampleText>>

C6_Witness ==
    /\ ExampleCall
    /\ Len(chunks) = 1
    /\ sentence_words(chunks[1]) = 6

----------------------------------------------------------------------------
(* f32 scores as exact fractions <<numerator, denominator>> in lowest      *)
(* terms with a positive denominator; rounding is not modelled.            *)

RECURSIVE GCD(_, _)
GCD(a, b) == IF b = 0 THEN a ELSE GCD(b, a % b)

Abs(x) == IF x < 0 THEN -x ELSE x

Rat(n, d) ==
    LET g == GCD(Abs(n), Abs(d))
        sgn == IF d < 0 THEN -1 ELSE 1
    IN  <<(sgn * n) \div g, (sgn * d) \div g>>

Zero == <<0, 1>>
One == <<1, 1>>

RAdd(x, y) == Rat(x[1] * y[2] + y[1] * x[2], x[2] * y[2])
RSub(x, y) == Rat(x[1] * y[2] - y[1] * x[2], x[2] * y[2])
RMul(x, y) == Rat(x[1] * y[1], x[2] * y[2])
RDiv(x, y) == Rat(x[1] * y[2], x[2] * y[1])
RLt(x, y) == x[1] * y[2] < y[1] * x[2]

\* f32::INFINITY and f32::NEG_INFINITY, ordered against the fractions by RLt
Infinity == <<1, 0>>
NegInfinity == <<-1, 0>>

\* f32::EPSILON = 2^-23
EPSILON == <<1, 8388608>>

f32_min(x, y) == IF RLt(y, x) THEN y ELSE x
f32_max(x, y) == IF RLt(x, y) THEN y ELSE x

----------------------------------------------------------------------------
(* hybrid_retrieval *)

RECURSIVE fold_range(_, _, _)
fold_range(b, mn, mx) ==
    IF b = <<>> THEN [min |-> mn, max |-> mx]
    ELSE fold_range(Tail(b), f32_min(mn, Head(b)), f32_max(mx, Head(b)))

score_range_from_zero(b) == fold_range(b, Zero, Zero)

\* the fold over b_scores starting from (INFINITY, NEG_INFINITY)
score_range(b) == fold_range(b, Infinity, NegInfinity)

\* (b_max - b_min).max(f32::EPSILON); NEG_INFINITY - INFINITY is NEG_INFINITY
range_denom(mn, mx) ==
    IF mx = NegInfinity THEN EPSILON ELSE f32_max(RSub(mx, mn), EPSILON)

requested_results_top_k(k, n) == Min2(k, n)

\* n_results: Some((top_k * 5).min(chunks.len()))
requested_results(k, n) == Min2(k * 5, n)

\* an id string that does not parse as usize
Unparseable == -1

\* the HashMap embed_sim: chunk index -> 1 / (1 + dist); a later insert of
\* the same index replaces the earlier one, a missing distance counts as 0
embed_sim(r) ==
    IF ~r.has_distances THEN << >>
    ELSE LET keys == {r.ids[k] : k \in DOMAIN r.ids} \ {Unparseable}
             last(idx) == SetMax({k \in DOMAIN r.ids : r.ids[k] = idx})
             dist(k) == IF k <= Len(r.distances) THEN r.distances[k] ELSE Zero
         IN  [idx \in keys |-> RDiv(One, RAdd(One, dist(last(idx))))]

\* *embed_sim.get(&i).unwrap_or(&0.0)
dense_similarity(embed, i) == IF i \in DOMAIN embed THEN embed[i] ELSE Zero

\* (b_raw - b_min) / denom
b_norm(b_raw, mn, den) == RDiv(RSub(b_raw, mn), den)

fused_score_swapped(al, bn, e_sim) == RAdd(RMul(al, e_sim), RMul(RSub(One, al), bn))

\* alpha * b_norm + (1.0 - alpha) * e_sim
fused_score(al, bn, e_sim) == RAdd(RMul(al, bn), RMul(RSub(One, al), e_sim))

fusion_candidates_dense_only(n, embed) == (0..(n - 1)) \cap DOMAIN embed

\* b_scores.into_iter().enumerate(): every chunk index of the corpus
fusion_candidates(n, embed) == 0..(n - 1)

\* merged as collected from the map over the BM25 scores
collect_merged(b, mn, den, al, embed) ==
    LET entry(i) == <<i, fused_score(al, b_norm(b[i + 1], mn, den),
                                     dense_similarity(embed, i))>>
        all == [k \in 1..Len(b) |-> entry(k - 1)]
    IN  SelectSeq(all, LAMBDA e : e[1] \in fusion_candidates(Len(b), embed))

sorts_before_ascending(a, b) == RLt(a[2], b[2])

sorts_before_or_ties(a, b) == ~RLt(a[2], b[2])

\* a sorts strictly before b under |a, b| b.1.partial_cmp(&a.1)
sorts_before(a, b) == RLt(b[2], a[2])

\* slice::sort_by is stable: x is placed behind every element it does not
\* sort strictly before
insert_stable(sorted, x) ==
    LET later == {k \in 1..Len(sorted) : sorts_before(x, sorted[k])}
        at == IF later = {} THEN Len(sorted) + 1 ELSE SetMin(later)
    IN  SubSeq(sorted, 1, at - 1) \o <<x>> \o SubSeq(sorted, at, Len(sorted))

RECURSIVE sort_from(_, _)
sort_from(s, acc) ==
    IF s = <<>> THEN acc ELSE sort_from(Tail(s), insert_stable(acc, Head(s)))

sort_by(s) == sort_from(s, <<>>)

\* Vec::truncate
truncate(s, k) == SubSeq(s, 1, Min2(k, Len(s)))

----------------------------------------------------------------------------
(* Bounds of the hybrid retrieval's inputs *)

MaxCorpus == 3
MaxTopK == 3
MaxHits == 2

Alphas == {Zero, <<3, 5>>, One}

Bm25Scores == {<<0, 1>>, <<1, 1>>, <<2, 1>>}
Distances == {<<0, 1>>, <<1, 1>>}

SeqsUpTo(S, n) == UNION {[1..m -> S] : m \in 0..n}

Ascending(d) == \A k \in 1..(Len(d) - 1) : ~RLt(d[k + 1], d[k])

Distinct(ids) == \A k, l \in DOMAIN ids : k # l => ids[k] # ids[l]

\* what the vector index may answer to a request for nr results over a
\* corpus of n chunks: m <= nr hits with distinct ids, each id the index of
\* a chunk or a string that is no number, and one distance per id, ascending
Responses(nr, n) ==
    UNION {
        {[ids |-> ids, distances |-> d, has_distances |-> TRUE] :
            ids \in {x \in [1..m -> {Unparseable} \cup (0..(n - 1))] : Distinct(x)},
            d \in {x \in [1..m -> Distances] : Ascending(x)}} :
        m \in 0..Min2(nr, MaxHits)}

----------------------------------------------------------------------------
(* Specification of the hybrid retrieval *)

ChunkIdle ==
    /\ text = <<>>
    /\ chunk_size = 0
    /\ overlap = 0
    /\ chunks = <<>>
    /\ cerr = "none"
    /\ cpc = "idle"

HybridInit ==
    /\ ChunkIdle
    /\ Bm25Idle
    /\ KeywordIdle
    /\ IterIdle
    /\ OthersIdle
    /\ b_scores \in SeqsUpTo(Bm25Scores, MaxCorpus)
    /\ top_k \in 0..MaxTopK
    /\ alpha \in Alphas
    /\ b_min = Zero
    /\ b_max = Zero
    /\ denom = Zero
    /\ n_results = 0
    /\ res = [ids |-> <<>>, distances |-> <<>>, has_distances |-> FALSE]
    /\ scored = <<>>
    /\ merged = <<>>
    /\ hpc = "call"

\* steps 1 and 2: the BM25 range, the query embedding, the request sent
HybridQuery ==
    /\ hpc = "call"
    /\ LET r == score_range(b_scores)
       IN  /\ b_min' = r.min
           /\ b_max' = r.max
           /\ denom' = range_denom(r.min, r.max)
    /\ n_results' = requested_results(top_k, Len(b_scores))
    /\ hpc' = "query"
    /\ UNCHANGED <<b_scores, top_k, alpha, res, scored, merged>>
    /\ UNCHANGED not_hybrid_vars

\* embedder.embed_texts(&[query])? returns the provider's error
HybridEmbedFail ==
    /\ hpc = "call"
    /\ LET r == score_range(b_scores)
       IN  /\ b_min' = r.min
           /\ b_max' = r.max
           /\ denom' = range_denom(r.min, r.max)
    /\ hpc' = "failed"
    /\ UNCHANGED <<b_scores, top_k, alpha, n_results, res, scored, merged>>
    /\ UNCHANGED not_hybrid_vars

\* collection.query(opts, None).await? returns the index's error
HybridQueryFail ==
    /\ hpc = "query"
    /\ hpc' = "failed"
    /\ UNCHANGED <<b_scores, top_k, alpha, b_min, b_max, denom, n_results, res,
                   scored, merged>>
    /\ UNCHANGED not_hybrid_vars

\* steps 3 to 5 on the index's answer
HybridFuse ==
    /\ hpc = "query"
    /\ \E r \in Responses(n_results, Len(b_scores)) :
          /\ res' = r
          /\ scored' = collect_merged(b_scores, b_min, denom, alpha, embed_sim(r))
    /\ merged' = truncate(sort_by(scored'), top_k)
    /\ hpc' = "done"
    /\ UNCHANGED <<b_scores, top_k, alpha, b_min, b_max, denom, n_results>>
    /\ UNCHANGED not_hybrid_vars

HybridNext ==
    \/ HybridQuery
    \/ HybridEmbedFail
    \/ HybridQueryFail
    \/ HybridFuse

HybridSpec == HybridInit /\ [][HybridNext]_vars

----------------------------------------------------------------------------
(* Properties of the hybrid retrieval *)

RMinOf(S) == CHOOSE x \in S : \A y \in S : ~RLt(y, x)
RMaxOf(S) == CHOOSE x \in S : \A y \in S : ~RLt(x, y)

CorpusMin == RMinOf(Range(b_scores))
CorpusMax == RMaxOf(Range(b_scores))

\* min-max normalization of score b over the range mn..mx, 0 when mx = mn
MinMax(b, mn, mx) == IF mx = mn THEN Zero ELSE RDiv(RSub(b, mn), RSub(mx, mn))

Normalized(i) == MinMax(b_scores[i + 1], CorpusMin, CorpusMax)

ChunkIndices == 0..(Len(b_scores) - 1)

ReturnedIds == {res.ids[k] : k \in DOMAIN res.ids}

\* x ranks above y: higher score, or equal score and earlier in the corpus
Outranks(x, y) == RLt(y[2], x[2]) \/ (x[2] = y[2] /\ x[1] < y[1])

LexicalEntry(i) == <<i, RMul(alpha, Normalized(i))>>

\* C7: every chunk of the corpus is a fusion candidate; a chunk absent from
\* the dense retriever's returned set is scored alpha * normalized_sparse and
\* is in the result whenever fewer than top_k chunks rank above it.
C7_LexicalOnlyKept ==
    hpc = "done" =>
        LET mn == CorpusMin
            mx == CorpusMax
            all == Range(scored)
            kept == Range(merged)
        IN  /\ {e[1] : e \in all} = ChunkIndices
            /\ \A i \in ChunkIndices \ ReturnedIds :
                  LET e == <<i, RMul(alpha, MinMax(b_scores[i + 1], mn, mx))>>
                  IN  /\ e \in all
                      /\ Cardinality({x \in all : Outranks(x, e)}) < top_k => e \in kept

C7_Witness ==
    /\ hpc = "done"
    /\ \E i \in ChunkIndices \ ReturnedIds :
          /\ LexicalEntry(i) \in Range(merged)
          /\ \E x \in Range(scored) :
                /\ x[1] \in ReturnedIds
                /\ RLt(Zero, x[2])
                /\ x \notin Range(merged)

\* C8: the normalized sparse score of each chunk comes from the minimum and
\* maximum BM25 score over all chunks, lies in [0,1], and is 0 for every
\* chunk when the maximum equals the minimum.
C8_SparseNormalization ==
    (hpc \in {"query", "done"} /\ b_scores # <<>>) =>
        LET mn == CorpusMin
            mx == CorpusMax
        IN  /\ b_min = mn
            /\ b_max = mx
            /\ \A i \in ChunkIndices :
                  LET x == b_norm(b_scores[i + 1], b_min, denom)
                  IN  /\ x = MinMax(b_scores[i + 1], mn, mx)
                      /\ ~RLt(x, Zero)
                      /\ ~RLt(One, x)
                      /\ (mx = mn => x = Zero)

C8_Witness ==
    /\ hpc = "done"
    /\ Len(b_scores) >= 2
    /\ b_max = b_min
    /\ RLt(Zero, b_max)
    /\ alpha = One
    /\ Len(merged) >= 2
    /\ \A e \in Range(scored) : e[2] = Zero

\* the policy threshold of the relevance floor, 0.2
RelevanceFloor == <<1, 5>>

\* C9: no result returned by hybrid retrieval has a fused score below the
\* relevance floor.
C9_RelevanceFloor ==
    hpc = "done" => \A k \in 1..Len(merged) : ~RLt(merged[k][2], RelevanceFloor)

\* C10: the returned list is in descending order of fused score, and chunks
\* of equal fused score are in ascending corpus index order.
C10_FusedOrdering ==
    hpc = "done" =>
        \A k, l \in 1..Len(merged) : k < l => Outranks(merged[k], merged[l])

C10_Witness ==
    /\ hpc = "done"
    /\ Len(merged) = 3
    /\ merged[1][2] = merged[2][2]
    /\ RLt(merged[3][2], merged[2][2])
    /\ scored # merged

\* the indices of S by descending value of score[i + 1], equal values in
\* ascending index order
RECURSIVE RankedBy(_, _)
RankedBy(score, S) ==
    IF S = {} THEN <<>>
    ELSE LET best == CHOOSE i \in S :
                        \A j \in S : \/ RLt(score[j + 1], score[i + 1])
                                     \/ (score[j + 1] = score[i + 1] /\ i <= j)
         IN  <<best>> \o RankedBy(score, S \ {best})

Indices(m) == [k \in 1..Len(m) |-> m[k][1]]

\* the normalized sparse score of every chunk, in corpus order
NormalizedScores == [k \in 1..Len(b_scores) |-> Normalized(k - 1)]

\* C11: with alpha = 1 the returned ranking is the BM25 ranking (descending,
\* ties in corpus order) of the chunks at or above the relevance floor, cut
\* to top_k, whatever the dense retriever returns.
C11_PureLexical ==
    (hpc = "done" /\ alpha = One) =>
        LET norm == NormalizedScores
            above == {i \in ChunkIndices : ~RLt(norm[i + 1], RelevanceFloor)}
        IN  Indices(merged) = truncate(RankedBy(b_scores, above), top_k)

\* the dense similarity of every chunk, in corpus order: 1 / (1 + distance)
\* for a chunk the index returned, 0 for the others
DenseScores ==
    [k \in 1..Len(b_scores) |->
        LET at == {h \in DOMAIN res.ids : res.ids[h] = k - 1}
        IN  IF at = {} THEN Zero
            ELSE RDiv(One, RAdd(One, res.distances[SetMax(at)]))]

\* the chunk indices among the ids the index returned, in the index's order
DenseHits == SelectSeq(res.ids, LAMBDA id : id # Unparseable)

\* C12 as stated: with alpha = 0 the returned ranking is the list of dense
\* hits in the order the index returned them.
C12_PureSemanticHits ==
    (hpc = "done" /\ alpha = Zero) => Indices(merged) = truncate(DenseHits, top_k)

\* C12 amended: with alpha = 0 the returned list ranks all chunks of the
\* corpus by dense similarity alone, descending, equal similarities (chunks
\* without a dense hit have similarity 0) in corpus order, cut to top_k, and
\* carries those similarities as scores, whatever the BM25 scores are.
C12_PureSemantic ==
    (hpc = "done" /\ alpha = Zero) =>
        LET dense == DenseScores
            ranked == truncate(RankedBy(dense, ChunkIndices), top_k)
        IN  merged = [k \in 1..Len(ranked) |-> <<ranked[k], dense[ranked[k] + 1]>>]

C12_Witness ==
    /\ hpc = "done"
    /\ alpha = Zero
    /\ Len(merged) >= 2
    /\ RLt(merged[2][2], merged[1][2])
    /\ RLt(b_scores[merged[1][1] + 1], b_scores[merged[2][1] + 1])

\* C13 as stated: the number of dense candidates requested is strictly
\* greater than top_k for every top_k and every corpus.
C13_BudgetExceedsTopK ==
    hpc \in {"query", "done"} => n_results > top_k

\* C13 amended: the number of dense candidates requested is
\* min(5 * top_k, corpus size); it is strictly greater than top_k whenever
\* top_k >= 1 and the corpus has more than top_k chunks.
C13_DenseBudget ==
    hpc \in {"query", "done"} =>
        /\ n_results = Min2(5 * top_k, Len(b_scores))
        /\ (top_k >= 1 /\ Len(b_scores) > top_k) => n_results > top_k

C13_Witness ==
    /\ hpc = "query"
    /\ top_k >= 2
    /\ Len(b_scores) > top_k
    /\ n_results > top_k

----------------------------------------------------------------------------
(* Bm25Index::score (lexical/src/hybrid.rs).  A sparse embedding is a      *)
(* sequence of TokenEmbedding records [index, value]; the bm25 crate's      *)
(* Embedder that produces them is outside the repository, so the query     *)
(* embedding and the chunk embeddings are inputs.                          *)

MaxDocs == 2
MaxTerms == 1

dot_any_index(a, b) ==
    LET RECURSIVE Inner(_, _, _), Outer(_, _)
        Inner(qe, j, sum) ==
            IF j > Len(b) THEN sum
            ELSE Inner(qe, j + 1, RAdd(sum, RMul(qe.value, b[j].value)))
        Outer(i, sum) ==
            IF i > Len(a) THEN sum ELSE Outer(i + 1, Inner(a[i], 1, sum))
    IN  Outer(1, Zero)

\* fn dot: the sum of qv * dv over the pairs of entries with qi == di
dot(a, b) ==
    LET RECURSIVE Inner(_, _, _), Outer(_, _)
        Inner(qe, j, sum) ==
            IF j > Len(b) THEN sum
            ELSE Inner(qe, j + 1,
                       IF qe.index = b[j].index
                       THEN RAdd(sum, RMul(qe.value, b[j].value))
                       ELSE sum)
        Outer(i, sum) ==
            IF i > Len(a) THEN sum ELSE Outer(i + 1, Inner(a[i], 1, sum))
    IN  Outer(1, Zero)

\* Bm25Index::score: doc_embeddings.iter().map(|d| dot(&q_emb, d)).collect()
score(q, docs) == [k \in 1..Len(docs) |-> dot(q, docs[k])]

TermIndices == {0, 1}
TermValues == {<<1, 1>>, <<2, 1>>}
TokenEmbeddings == [index : TermIndices, value : TermValues]
Embeddings == SeqsUpTo(TokenEmbeddings, MaxTerms)

Bm25Init ==
    /\ ChunkIdle
    /\ HybridIdle
    /\ KeywordIdle
    /\ IterIdle
    /\ OthersIdle
    /\ q_emb \in Embeddings
    /\ doc_embeddings \in SeqsUpTo(Embeddings, MaxDocs)
    /\ scores = <<>>
    /\ bpc = "call"

Bm25Score ==
    /\ bpc = "call"
    /\ scores' = score(q_emb, doc_embeddings)
    /\ bpc' = "done"
    /\ UNCHANGED <<q_emb, doc_embeddings>>
    /\ UNCHANGED not_bm25_vars

Bm25Next == Bm25Score

Bm25Spec == Bm25Init /\ [][Bm25Next]_vars

TermsOf(e) == {e[k].index : k \in DOMAIN e}

\* no term index of the query occurs in the sparse vector of any chunk
UnknownQuery ==
    \A k \in DOMAIN doc_embeddings :
        TermsOf(q_emb) \cap TermsOf(doc_embeddings[k]) = {}

\* C14: score always returns, with one score per chunk; for a query none of
\* whose term indices occurs in any chunk's sparse vector every score is 0.
C14_UnknownTermsScoreZero ==
    /\ bpc \in {"call", "done"}
    /\ bpc = "done" =>
        /\ Len(scores) = Len(doc_embeddings)
        /\ UnknownQuery => \A k \in DOMAIN scores : scores[k] = Zero

C14_Witness ==
    /\ bpc = "done"
    /\ UnknownQuery
    /\ q_emb # <<>>
    /\ Len(doc_embeddings) >= 2
    /\ \A k \in DOMAIN doc_embeddings : doc_embeddings[k] # <<>>
    /\ scores = <<Zero, Zero>>

----------------------------------------------------------------------------
(* Query refinement (iterative/src/retrieval.rs).  Texts and queries are   *)
(* sequences of ASCII characters, so a word's len() is its number of       *)
(* characters.                                                             *)

LowerLetters ==
    {"a", "b", "c", "d", "e", "f", "g", "h", "i", "j", "k", "l", "m", "n", "o", "p", "q", "r", "s", "t", "u", "v", "w", "x", "y", "z"}
UpperLetters ==
    {"A", "B", "C", "D", "E", "F", "G", "H", "I", "J", "K", "L", "M", "N", "O", "P", "Q", "R", "S", "T", "U", "V", "W", "X", "Y", "Z"}
Digits == {"0", "1", "2", "3", "4", "5", "6", "7", "8", "9"}

lower_of(c) ==
    CASE c = "A" -> "a"
      [] c = "B" -> "b"
      [] c = "C" -> "c"
      [] c = "D" -> "d"
      [] c = "E" -> "e"
      [] c = "F" -> "f"
      [] c = "G" -> "g"
      [] c = "H" -> "h"
      [] c = "I" -> "i"
      [] c = "J" -> "j"
      [] c = "K" -> "k"
      [] c = "L" -> "l"
      [] c = "M" -> "m"
      [] c = "N" -> "n"
      [] c = "O" -> "o"
      [] c = "P" -> "p"
      [] c = "Q" -> "q"
      [] c = "R" -> "r"
      [] c = "S" -> "s"
      [] c = "T" -> "t"
      [] c = "U" -> "u"
      [] c = "V" -> "v"
      [] c = "W" -> "w"
      [] c = "X" -> "x"
      [] c = "Y" -> "y"
      [] c = "Z" -> "z"
      [] OTHER -> c

\* str::to_lowercase
to_lowercase(s) == [k \in DOMAIN s |-> lower_of(s[k])]

\* char::is_alphanumeric
is_alphanumeric(c) == c \in LowerLetters \cup UpperLetters \cup Digits

\* const STOPWORDS
STOPWORDS == {
    <<"t", "h", "e">>, <<"a", "n", "d">>, <<"i", "s">>, <<"i", "n">>,
    <<"o", "f">>, <<"t", "o">>, <<"a">>, <<"t", "h", "a", "t">>,
    <<"f", "o", "r">>, <<"o", "n">>, <<"w", "i", "t", "h">>, <<"a", "s">>,
    <<"i", "t">>, <<"b", "y">>, <<"t", "h", "i", "s">>, <<"a", "r", "e">>,
    <<"w", "a", "s">>, <<"a", "t">>, <<"f", "r", "o", "m">>, <<"o", "r">>,
    <<"b", "e">>, <<"w", "h", "i", "c", "h">>, <<"n", "o", "t">>,
    <<"c", "a", "n">>, <<"a", "l", "s", "o">>, <<"h", "a", "v", "e">>,
    <<"h", "a", "s">>, <<"h", "a", "d">>, <<"w", "e">>,
    <<"t", "h", "e", "y">>, <<"y", "o", "u">>, <<"h", "e">>,
    <<"s", "h", "e">>, <<"h", "i", "s">>, <<"h", "e", "r">>,
    <<"i", "t", "s">>, <<"o", "u", "r">>, <<"u", "s">>,
    <<"t", "h", "e", "i", "r">>, <<"t", "h", "e", "m">>, <<"i">>,
    <<"d", "o">>, <<"d", "o", "e", "s">>, <<"d", "i", "d">>,
    <<"j", "u", "s", "t">>, <<"s", "o">>, <<"i", "f">>, <<"m", "a", "y">>,
    <<"w", "i", "l", "l">>, <<"s", "h", "a", "l", "l">>,
    <<"m", "o", "r", "e">>, <<"m", "o", "s", "t">>, <<"s", "o", "m", "e">>,
    <<"m", "a", "n", "y">>, <<"a", "n", "y">>, <<"a", "l", "l">>,
    <<"w", "h", "a", "t">>, <<"a", "b", "o", "u", "t">>,
    <<"w", "o", "u", "l", "d">>, <<"c", "o", "u", "l", "d">>,
    <<"s", "h", "o", "u", "l", "d">>, <<"w", "h", "e", "r", "e">>,
    <<"w", "h", "e", "n">>, <<"w", "h", "y">>, <<"h", "o", "w">>}

\* w.chars().filter(|c| c.is_alphanumeric()).collect()
alphanumeric_only(w) == SelectSeq(w, is_alphanumeric)

\* split_whitespace().map(alphanumeric only).filter(|w| !w.is_empty())
clean_words(lower) ==
    LET ws == split_whitespace(lower)
        cleaned == [k \in DOMAIN ws |-> alphanumeric_only(ws[k])]
    IN  SelectSeq(cleaned, LAMBDA w : w # <<>>)

is_candidate_short_allowed(w, query_words) ==
    w \notin STOPWORDS /\ w \notin query_words

\* w.len() > 4 && !STOPWORDS.contains(w) && !query_words.contains(w)
is_candidate(w, query_words) ==
    Len(w) > 4 /\ w \notin STOPWORDS /\ w \notin query_words

\* the position at which the stable sort by b.len().cmp(&a.len()) puts w in
\* the sorted prefix: after every word that is at least as long
RECURSIVE insert_by_length(_, _)
insert_by_length(sorted, w) ==
    IF sorted = <<>> THEN <<w>>
    ELSE IF Len(Head(sorted)) < Len(w)
         THEN <<w>> \o sorted
         ELSE <<Head(sorted)>> \o insert_by_length(Tail(sorted), w)

RECURSIVE sort_by_length(_, _)
sort_by_length(sorted, rest) ==
    IF rest = <<>> THEN sorted
    ELSE sort_by_length(insert_by_length(sorted, Head(rest)), Tail(rest))

\* Iterator::take
take(s, n) == SubSeq(s, 1, Min2(n, Len(s)))

\* fn extract_refinement_keywords
extract_refinement_keywords(chunk_text_, current_query_) ==
    LET chunk_lower == to_lowercase(chunk_text_)
        query_lower == to_lowercase(current_query_)
        chunk_words == clean_words(chunk_lower)
        query_words == Range(clean_words(query_lower))
        candidates == SelectSeq(chunk_words, LAMBDA w : is_candidate(w, query_words))
    IN  take(sort_by_length(<<>>, candidates), 2)

RECURSIVE join(_)
join(ws) ==
    IF ws = <<>> THEN <<>>
    ELSE IF Len(ws) = 1 THEN ws[1]
    ELSE ws[1] \o <<" ">> \o join(Tail(ws))

refine_query_no_space(q, refine_words) ==
    IF refine_words = <<>> THEN q ELSE q \o join(refine_words)

\* fn refine_query
refine_query(q, refine_words) ==
    IF refine_words = <<>> THEN q ELSE q \o <<" ">> \o join(refine_words)

----------------------------------------------------------------------------
(* Specification of the keyword extraction *)

MaxChunkWords == 3

\* words a chunk is made of: a stopword of five letters, a capitalised word
\* with punctuation, plain words of five and nine letters, a word of four
\* letters and an upper-case repetition
Vocabulary == {
    <<"a", "b", "o", "u", "t">>,
    <<"P", "o", "l", "i", "c", "y", ",">>,
    <<"r", "u", "l", "e", "s">>,
    <<"e", "m", "p", "l", "o", "y", "e", "e", "s">>,
    <<"d", "a", "t", "a">>,
    <<"R", "U", "L", "E", "S">>}

KeywordChunks == {join(ws) : ws \in SeqsUpTo(Vocabulary, MaxChunkWords)}

KeywordQueries == {
    <<>>,
    <<"p", "o", "l", "i", "c", "y">>,
    <<"W", "h", "a", "t", " ", "r", "u", "l", "e", "s">>}

KeywordInit ==
    /\ ChunkIdle
    /\ HybridIdle
    /\ Bm25Idle
    /\ IterIdle
    /\ OthersIdle
    /\ kw_chunk \in KeywordChunks
    /\ kw_query \in KeywordQueries
    /\ keywords = <<>>
    /\ kpc = "call"

ExtractKeywords ==
    /\ kpc = "call"
    /\ keywords' = extract_refinement_keywords(kw_chunk, kw_query)
    /\ kpc' = "done"
    /\ UNCHANGED <<kw_chunk, kw_query>>
    /\ UNCHANGED not_keyword_vars

KeywordNext == ExtractKeywords

KeywordSpec == KeywordInit /\ [][KeywordNext]_vars

\* the lower-cased, alphanumeric-only words of a text
NormalWords(t) ==
    {alphanumeric_only(to_lowercase(r)) : r \in Range(split_whitespace(t))}

\* the words of the chunk a refinement may use
Eligible(chunk, query) ==
    {w \in NormalWords(chunk) :
        Len(w) > 4 /\ w \notin STOPWORDS /\ w \notin NormalWords(query)}

\* C18: every returned keyword is an eligible word of the chunk; at most two
\* are returned, longest first, and no eligible word that was left out is
\* longer than a returned one.
C18_KeywordEligibility ==
    kpc = "done" =>
        /\ Range(keywords) \subseteq Eligible(kw_chunk, kw_query)
        /\ Len(keywords) <= 2
        /\ \A k \in 1..(Len(keywords) - 1) : Len(keywords[k]) >= Len(keywords[k + 1])
        /\ \A e \in Eligible(kw_chunk, kw_query) \ Range(keywords) :
                \A k \in DOMAIN keywords : Len(e) <= Len(keywords[k])

C18_Witness ==
    /\ kpc = "done"
    /\ kw_query # <<>>
    /\ Len(keywords) = 2
    /\ Len(keywords[1]) > Len(keywords[2])
    /\ Len(split_whitespace(kw_chunk)) = MaxChunkWords
    /\ Eligible(kw_chunk, kw_query) = Range(keywords)
    /\ \E r \in Range(split_whitespace(kw_chunk)) : r \notin Range(keywords)

----------------------------------------------------------------------------
(* iterative_retrieval (iterative/src/retrieval.rs) over retrieve_best_chunk *)
(* (iterative/src/vector_db.rs).  The embedder and the vector index are      *)
(* external: each call either fails or answers with a QueryResult of at      *)
(* most one document (n_results = 1) and its distance.  The metadata of a    *)
(* hit is carried through unchanged and is left out.                         *)

MaxSteps == 3
MaxResults == 4

None == [some |-> FALSE, text |-> <<>>, score |-> Zero]

Some(t, sc) == [some |-> TRUE, text |-> t, score |-> sc]

retrieve_best_chunk_default_doc(r) ==
    Some(IF r.documents = <<>> THEN <<>> ELSE r.documents[1],
         RDiv(One, RAdd(One, IF r.distances = <<>> THEN Zero ELSE r.distances[1])))

\* retrieve_best_chunk after the query has answered: None when no document
\* came back, else the first document with score 1.0 / (1.0 + distance)
retrieve_best_chunk(r) ==
    IF r.documents = <<>> THEN None
    ELSE LET distance == IF r.distances = <<>> THEN Zero ELSE r.distances[1]
         IN  Some(r.documents[1], RDiv(One, RAdd(One, distance)))

loop_continues_once_more(st, n) == st <= n + 1

\* for step in 1..=steps
loop_continues(st, n) == st <= n

improvement_not_met_from_zero(sc, best, threshold) == RLt(sc, threshold)

improvement_not_met_either_way(sc, best, threshold) ==
    LET d == RSub(sc, best)
    IN  RLt(IF RLt(d, Zero) THEN RSub(Zero, d) ELSE d, threshold)

\* score - best_score < improvement_threshold
improvement_not_met(sc, best, threshold) == RLt(RSub(sc, best), threshold)

after_error_retry == "loop"

\* `?` on retrieve_best_chunk: the error leaves the function
after_error == "failed"

IterationResult_zero_based(st, q, t, sc) ==
    [step |-> st - 1, query |-> q, retrieved_text |-> t, score |-> sc]

IterationResult(st, q, t, sc) ==
    [step |-> st, query |-> q, retrieved_text |-> t, score |-> sc]

Thresholds == {<<-1, 2>>, Zero, <<1, 50>>}

IterDistances == {<<3, 1>>, <<1, 1>>, <<49, 51>>}

IterTexts == {
    <<"t", "h", "e", " ", "d", "a", "t", "a">>,
    <<"P", "o", "l", "i", "c", "y", " ", "r", "u", "l", "e", "s">>,
    <<"A", "l", "l", " ", "e", "m", "p", "l", "o", "y", "e", "e", "s">>,
    <<"R", "e", "m", "o", "t", "e", " ", "w", "o", "r", "k">>}

IterQueries == {<<>>, <<"p", "o", "l", "i", "c", "y">>}

IterResponses ==
    {[documents |-> <<>>, distances |-> <<>>]} \cup
    {[documents |-> <<t>>, distances |-> <<d>>] : t \in IterTexts, d \in IterDistances}

IterInit ==
    /\ ChunkIdle
    /\ HybridIdle
    /\ Bm25Idle
    /\ KeywordIdle
    /\ OthersIdle
    /\ initial_query \in IterQueries
    /\ steps \in 0..MaxSteps
    /\ improvement_threshold \in Thresholds
    /\ max_chunks \in 0..MaxResults
    /\ step = 1
    /\ current_query = initial_query
    /\ best_score = Zero
    /\ results = <<>>
    /\ qres = [documents |-> <<>>, distances |-> <<>>]
    /\ calls = 0
    /\ stop = ""
    /\ ipc = "loop"

iter_params == <<initial_query, steps, improvement_threshold, max_chunks>>

\* the range 1..=steps is exhausted: Ok(results)
IterLoopDone ==
    /\ ipc = "loop"
    /\ ~loop_continues(step, steps)
    /\ ipc' = "done"
    /\ stop' = "steps"
    /\ UNCHANGED <<iter_params, step, current_query, best_score, results, qres, calls>>
    /\ UNCHANGED not_iter_vars

\* retrieve_best_chunk(collection, embedder, &current_query, 1) is called
IterRetrieve ==
    /\ ipc = "loop"
    /\ loop_continues(step, steps)
    /\ calls' = calls + 1
    /\ ipc' = "await"
    /\ UNCHANGED <<iter_params, step, current_query, best_score, results, qres, stop>>
    /\ UNCHANGED not_iter_vars

\* embed_texts or collection.query failed: the error is returned by `?`
IterRetrieveFail ==
    /\ ipc = "await"
    /\ ipc' = after_error
    /\ stop' = "error"
    /\ UNCHANGED <<iter_params, step, current_query, best_score, results, qres, calls>>
    /\ UNCHANGED not_iter_vars

\* the query answered: the rest of the loop body
IterAnswer ==
    /\ ipc = "await"
    /\ \E r \in IterResponses :
         LET opt == retrieve_best_chunk(r)
             pushed == Append(results, IterationResult(step, current_query, opt.text, opt.score))
             kws == extract_refinement_keywords(opt.text, current_query)
         IN  /\ qres' = r
             /\ IF ~opt.some
                THEN /\ stop' = "no_chunk"
                     /\ ipc' = "done"
                     /\ UNCHANGED <<step, current_query, best_score, results>>
                ELSE IF improvement_not_met(opt.score, best_score, improvement_threshold)
                THEN /\ stop' = "no_improvement"
                     /\ ipc' = "done"
                     /\ UNCHANGED <<step, current_query, best_score, results>>
                ELSE /\ best_score' = opt.score
                     /\ results' = pushed
                     /\ IF Len(pushed) >= max_chunks
                        THEN /\ stop' = "max_chunks"
                             /\ ipc' = "done"
                             /\ UNCHANGED <<step, current_query>>
                        ELSE IF kws = <<>>
                        THEN /\ stop' = "no_keywords"
                             /\ ipc' = "done"
                             /\ UNCHANGED <<step, current_query>>
                        ELSE /\ current_query' = refine_query(current_query, kws)
                             /\ step' = step + 1
                             /\ ipc' = "loop"
                             /\ UNCHANGED stop
    /\ UNCHANGED <<iter_params, calls>>
    /\ UNCHANGED not_iter_vars

IterNext == IterLoopDone \/ IterRetrieve \/ IterRetrieveFail \/ IterAnswer

IterSpec == IterInit /\ [][IterNext]_vars

----------------------------------------------------------------------------
(* Properties of the iterative retrieval *)

\* the loop body has just run on an answer of the index
Answered == ipc = "await" /\ ipc' # "failed"

\* C15: at most `steps` retrieval calls are made and at most `steps` results
\* are returned, whatever the scores and keywords; with steps = 0 no call is
\* made and the result is empty.
C15_RefinementBounded ==
    /\ calls <= steps
    /\ Len(results) <= steps
    /\ Len(results) <= calls
    /\ ipc = "loop" => step <= steps + 1
    /\ steps = 0 => (calls = 0 /\ results = <<>> /\ ipc \in {"loop", "done"})

C15_Witness ==
    /\ ipc = "done"
    /\ stop = "steps"
    /\ steps >= 3
    /\ calls = steps
    /\ Len(results) = steps
    /\ \A k \in 1..2 :
            /\ RLt(results[k].score, results[k + 1].score)
            /\ results[k].query # results[k + 1].query

\* C16: a hit whose score exceeds best_score by less than the threshold ends
\* the refinement and is not recorded; any other hit is recorded and becomes
\* best_score, which is 0 until a hit is accepted.  With threshold 0.02 a
\* score 0.51 after an accepted 0.5 is rejected.
C16_NoImprovementStop ==
    [][/\ results = <<>> => best_score = Zero
       /\ (Answered /\ qres'.documents # <<>>) =>
            LET sc == RDiv(One, RAdd(One, qres'.distances[1]))
            IN  /\ IF RLt(RSub(sc, best_score), improvement_threshold)
                   THEN /\ ipc' = "done"
                        /\ results' = results
                        /\ best_score' = best_score
                   ELSE /\ Len(results') = Len(results) + 1
                        /\ SubSeq(results', 1, Len(results)) = results
                        /\ results'[Len(results')].score = sc
                        /\ best_score' = sc
                /\ ( /\ improvement_threshold = <<1, 50>>
                     /\ Len(results) = 1
                     /\ results[1].score = <<1, 2>>
                     /\ sc = <<51, 100>> ) => (ipc' = "done" /\ Len(results') = 1)
      ]_vars

C16_Witness ==
    /\ ipc = "done"
    /\ stop = "no_improvement"
    /\ improvement_threshold = <<1, 50>>
    /\ Len(results) = 1
    /\ results[1].score = <<1, 2>>
    /\ qres.distances = <<<<49, 51>>>>

NonDecreasing ==
    \A k \in 1..(Len(results) - 1) : ~RLt(results[k + 1].score, results[k].score)

\* C17 as stated: for every improvement_threshold the scores of the results
\* are non-decreasing.
C17_ScoresNonDecreasingAnyThreshold == NonDecreasing

\* C17 amended: for every improvement_threshold >= 0 the scores of the
\* results are non-decreasing.
C17_ScoresNonDecreasing ==
    ~RLt(improvement_threshold, Zero) => NonDecreasing

C17_Witness ==
    /\ ipc = "done"
    /\ ~RLt(improvement_threshold, Zero)
    /\ Len(results) >= 2
    /\ RLt(results[1].score, results[2].score)

IsPrefix(p, s) == Len(p) <= Len(s) /\ SubSeq(s, 1, Len(p)) = p

\* C19: when a hit is accepted and the chunk has no eligible keyword, the
\* refinement ends with the hit recorded and no further call; when it goes on
\* the next query is the current one, a space, and the keywords joined by
\* single spaces; every query starts with the initial query.
C19_KeywordTransition ==
    [][/\ (Answered /\ Len(results') = Len(results) + 1) =>
            LET hit == results'[Len(results')]
                kws == extract_refinement_keywords(hit.retrieved_text, current_query)
            IN  /\ hit.step = step /\ hit.query = current_query
                /\ Eligible(hit.retrieved_text, current_query) = {} =>
                        (ipc' = "done" /\ calls' = calls)
                /\ ipc' = "loop" =>
                        /\ kws # <<>>
                        /\ current_query' = current_query \o <<" ">> \o join(kws)
                        /\ step' = step + 1
       /\ ipc = "done" => calls' = calls
       /\ IsPrefix(initial_query, current_query')
       /\ \A k \in DOMAIN results' : IsPrefix(initial_query, results'[k].query)
      ]_vars

C19_Witness ==
    /\ ipc = "done"
    /\ stop = "no_keywords"
    /\ Len(results) = 2
    /\ initial_query # <<>>
    /\ results[1].query = initial_query
    /\ results[2].query = initial_query \o <<" ">>
            \o join(extract_refinement_keywords(results[1].retrieved_text, initial_query))
    /\ Eligible(results[2].retrieved_text, results[2].query) = {}

\* C20: when the index returns no document the refinement ends without an
\* error and the results accepted so far are returned unchanged.
C20_EmptyRetrievalStops ==
    [][(Answered /\ qres'.documents = <<>>) =>
            (ipc' = "done" /\ results' = results)]_vars

C20_Witness ==
    /\ ipc = "done"
    /\ stop = "no_chunk"
    /\ qres.documents = <<>>
    /\ Len(results) >= 1

\* C21: once the embedder or the index has failed the call has returned the
\* error: no retrieval call is made afterwards, the failed one included.
C21_FailureSurfaced ==
    [][/\ (ipc = "await" /\ stop' = "error") => (ipc' = "failed" /\ calls' = calls)
       /\ stop = "error" => (ipc = "failed" /\ ipc' = "failed" /\ calls' = calls)
      ]_vars

C21_Witness ==
    /\ ipc = "failed"
    /\ stop = "error"
    /\ calls >= 2
    /\ calls < steps
    /\ Len(results) = calls - 1

\* C22: the returned sequence never has more than max_chunks entries, for
\* every max_chunks >= 0.
C22_MaxChunksCap == Len(results) <= max_chunks

\* C28: the i-th result has step i and the query its retrieval used: the
\* initial query for the first, the refinement of the previous result's
\* query by the previous result's keywords for the others; nothing is
\* recorded once a step was rejected or returned nothing.
C28_StepNumbers ==
    /\ \A i \in DOMAIN results : results[i].step = i
    /\ results # <<>> => results[1].query = initial_query
    /\ \A i \in 1..(Len(results) - 1) :
            results[i + 1].query =
                refine_query(results[i].query,
                             extract_refinement_keywords(results[i].retrieved_text,
                                                         results[i].query))
    /\ ipc \in {"loop", "await"} => Len(results) = step - 1
    /\ stop \in {"no_chunk", "no_improvement"} => (ipc = "done" /\ Len(results) = step - 1)

C28_Witness ==
    /\ ipc = "done"
    /\ stop = "no_improvement"
    /\ Len(results) = 2
    /\ step = 3
    /\ results[2].step = 2
    /\ results[2].query # initial_query

\* C29: extract_refinement_keywords never returns the same word twice.
C29_NoDuplicateKeywords ==
    kpc = "done" => \A k, l \in DOMAIN keywords : k # l => keywords[k] # keywords[l]

----------------------------------------------------------------------------
(* Overlap seeding of the sentence-aware chunker *)

RECURSIVE WordsIn(_, _, _)
WordsIn(ss, a, b) ==
    IF a > b THEN 0 ELSE sentence_words(ss[a]) + WordsIn(ss, a + 1, b)

\* the first sentence of the shortest suffix of ss[1..b] with at least ov
\* words, or 1 when all of ss[1..b] has fewer
SuffixStart(ss, b, ov) ==
    LET enough == {a \in 1..b : WordsIn(ss, a, b) >= ov}
    IN  IF enough = {} THEN 1 ELSE SetMax(enough)

\* chunks cs[k..] each start with the overlap suffix of the sentences
\* consumed so far, ss[1..b], and go on with at least one further sentence
RECURSIVE Seeded(_, _, _, _, _)
Seeded(cs, ss, ov, k, b) ==
    \/ k > Len(cs)
    \/ \E b2 \in (b + 1)..Len(ss) :
          /\ cs[k] = join_sentences(SubSeq(ss, SuffixStart(ss, b, ov), b2))
          /\ Seeded(cs, ss, ov, k + 1, b2)

\* C24: with overlap > 0 every chunk after the first begins with the
\* shortest suffix of the consumed sentences that reaches overlap words and
\* continues with sentences not yet consumed.
C24_OverlapSeeding ==
    (RegularCall /\ overlap > 0 /\ chunks # <<>>) =>
        LET ss == split_sentences(text)
        IN  \E b1 \in 1..Len(ss) :
                /\ chunks[1] = join_sentences(SubSeq(ss, 1, b1))
                /\ Seeded(chunks, ss, overlap, 2, b1)

----------------------------------------------------------------------------
(* The fixed-size chunker and the dataset loader (metadata/src/data.rs,    *)
(* vector/src/data.rs)                                                     *)

MaxFixedWords == 3
MaxFixedSize == 3
MaxDocWords == 2
MaxLoadSize == 2
MaxDocuments == 2

CoreIdle == ChunkIdle /\ HybridIdle /\ Bm25Idle /\ KeywordIdle /\ IterIdle

\* the chunks of `for i in (0..words.len()).step_by(chunk_size)`, from i on
RECURSIVE fixed_chunks_from(_, _, _)
fixed_chunks_from(words, size, i) ==
    IF i >= Len(words) THEN <<>>
    ELSE LET end == Min2(i + size, Len(words))
         IN  <<join(SubSeq(words, i + 1, end))>> \o fixed_chunks_from(words, size, i + size)

\* fn chunk_text(text, chunk_size) of the fixed-size variant;
\* Iterator::step_by panics when the step is 0
fixed_chunk_text(t, size) ==
    LET words == split_whitespace(t)
    IN  IF size = 0
        THEN [panic |-> TRUE, chunks |-> <<>>]
        ELSE [panic |-> FALSE, chunks |-> fixed_chunks_from(words, size, 0)]

FixedWords == {<<"a">>, <<"b">>}

FixedTexts ==
    LET joined == {join(ws) : ws \in SeqsUpTo(FixedWords, MaxFixedWords)}
    IN  joined \cup {<<"\n", " ">> \o t \o <<" ">> : t \in joined}

FixedInit ==
    /\ CoreIdle
    /\ LoadIdle /\ RetrieveIdle /\ DateIdle /\ SearchIdle
    /\ fx_text \in FixedTexts
    /\ fx_size \in 0..MaxFixedSize
    /\ fx_chunks = <<>>
    /\ fxpc = "call"

FixedChunkText ==
    /\ fxpc = "call"
    /\ LET out == fixed_chunk_text(fx_text, fx_size)
       IN  /\ fx_chunks' = out.chunks
           /\ fxpc' = IF out.panic THEN "panic" ELSE "done"
    /\ UNCHANGED <<fx_text, fx_size>>
    /\ UNCHANGED not_fixed_vars

FixedNext == FixedChunkText

FixedSpec == FixedInit /\ [][FixedNext]_vars

\* C30: with chunk_size = 0 the fixed-size chunk_text returns an empty
\* sequence without failing, for every text.
C30_FixedZeroSize ==
    (fxpc # "call" /\ fx_size = 0) => (fxpc = "done" /\ fx_chunks = <<>>)

NoCategory == "<none>"
NoDate == "<none>"

\* the chunks of one document
document_chunks(doc, doc_chunks) ==
    [k \in 1..Len(doc_chunks) |->
        [doc_id |-> doc.id,
         chunk_id |-> k - 1,
         category |-> IF doc.category = NoCategory THEN "general" ELSE doc.category,
         text |-> doc_chunks[k],
         date |-> doc.date]]

\* fn load_and_chunk_dataset after the file was read: the loop over the
\* documents, which panics with the first chunk_text call that panics
RECURSIVE load_chunks(_, _, _)
load_chunks(docs, size, acc) ==
    IF docs = <<>> THEN [panic |-> FALSE, chunks |-> acc]
    ELSE LET out == fixed_chunk_text(Head(docs).content, size)
         IN  IF out.panic THEN [panic |-> TRUE, chunks |-> <<>>]
             ELSE load_chunks(Tail(docs), size,
                              acc \o document_chunks(Head(docs), out.chunks))

DocIds == {1, 2}

DocTexts == {join(ws) : ws \in SeqsUpTo({<<"a">>}, MaxDocWords)}

Documents ==
    [id : DocIds, content : DocTexts, category : {NoCategory, "hr"},
     date : {NoDate, "2024-01-01T00:00:00"}]

LoadInit ==
    /\ CoreIdle
    /\ FixedIdle /\ RetrieveIdle /\ DateIdle /\ SearchIdle
    /\ documents \in SeqsUpTo(Documents, MaxDocuments)
    /\ ld_size \in 0..MaxLoadSize
    /\ all_chunks = <<>>
    /\ lpc = "call"

\* File::open or serde_json::from_reader failed: Err by `?`.  The documents
\* of the state are then those the file would have held.
LoadFail ==
    /\ lpc = "call"
    /\ lpc' = "failed"
    /\ UNCHANGED <<documents, ld_size, all_chunks>>
    /\ UNCHANGED not_load_vars

LoadAndChunk ==
    /\ lpc = "call"
    /\ LET out == load_chunks(documents, ld_size, <<>>)
       IN  /\ all_chunks' = out.chunks
           /\ lpc' = IF out.panic THEN "panic" ELSE "done"
    /\ UNCHANGED <<documents, ld_size>>
    /\ UNCHANGED not_load_vars

LoadNext == LoadFail \/ LoadAndChunk

LoadSpec == LoadInit /\ [][LoadNext]_vars

\* the chunk_ids of the chunks carrying doc_id id, in output order
ChunkIdsOf(id) ==
    LET mine == SelectSeq(all_chunks, LAMBDA c : c.doc_id = id)
    IN  [k \in 1..Len(mine) |-> mine[k].chunk_id]

\* C23: the chunks carrying a given doc_id have the chunk_ids 0, 1, ...,
\* n - 1 in output order.
C23_ChunkIds ==
    lpc = "done" =>
        \A id \in DocIds :
            LET ids == ChunkIdsOf(id)
            IN  ids = [k \in 1..Len(ids) |-> k - 1]

----------------------------------------------------------------------------
(* retrieve_top_chunks (retrieval/src/vector_db.rs).  The index answers a  *)
(* query for n results with at most n documents, nearest first; document k *)
(* of the answer is written k.                                             *)

MaxRtTopK == 2
MaxRtHits == 3

NoThreshold == [some |-> FALSE, value |-> Zero]

SomeThreshold(x) == [some |-> TRUE, value |-> x]

NoDocId == -1

\* query_n: top_k * 3 when a distance threshold is given, else top_k
query_n(k, threshold) == IF threshold.some THEN k * 3 ELSE k

\* where_metadata: category_filter.map(|category| json!({"category": category}))
where_metadata(category) ==
    IF category = NoCategory THEN NoCategory ELSE [category |-> category]

too_dissimilar_or_equal(distance, threshold) ==
    threshold.some /\ ~RLt(distance, threshold.value)

\* if let Some(threshold) = distance_threshold { if distance > threshold { continue } }
too_dissimilar(distance, threshold) ==
    threshold.some /\ RLt(threshold.value, distance)

\* distances[0][i], or 0.0 when the index sent none
distance_at(result, i) ==
    IF i + 1 \in DOMAIN result.distances THEN result.distances[i + 1] ELSE Zero

\* metadatas[0][i]["doc_id"], or the index i when the index sent none
doc_id_at(result, i) ==
    IF i + 1 \in DOMAIN result.metadatas /\ result.metadatas[i + 1] # NoDocId
    THEN result.metadatas[i + 1]
    ELSE i

RetrievedChunk(doc, id, distance) ==
    [chunk |-> doc, doc_id |-> id, distance |-> distance]

\* for (i, doc) in documents.iter().enumerate(), from i on
RECURSIVE collect_chunks(_, _, _, _, _)
collect_chunks(result, k, threshold, i, acc) ==
    IF i >= Len(result.documents) THEN acc
    ELSE LET distance == distance_at(result, i)
             pushed == Append(acc, RetrievedChunk(result.documents[i + 1],
                                                  doc_id_at(result, i), distance))
         IN  IF too_dissimilar(distance, threshold)
             THEN collect_chunks(result, k, threshold, i + 1, acc)
             ELSE IF Len(pushed) >= k
             THEN pushed
             ELSE collect_chunks(result, k, threshold, i + 1, pushed)

RtDistances == {Zero, <<1, 2>>, One}

RtThresholds == {NoThreshold, SomeThreshold(Zero), SomeThreshold(<<1, 2>>)}

RtResponses(n) ==
    UNION {
        {[documents |-> [k \in 1..m |-> k], distances |-> d, metadatas |-> md] :
            d \in {x \in [1..m -> RtDistances] : Ascending(x)},
            md \in [1..m -> {NoDocId, 7}]} :
        m \in 0..Min2(n, MaxRtHits)}

RetrieveInit ==
    /\ CoreIdle
    /\ FixedIdle /\ LoadIdle /\ DateIdle /\ SearchIdle
    /\ rt_top_k \in 0..MaxRtTopK
    /\ rt_category \in {NoCategory, "hr"}
    /\ rt_threshold \in RtThresholds
    /\ rt_options = <<>>
    /\ rt_result = <<>>
    /\ retrieved_chunks = <<>>
    /\ rtpc = "call"

rt_params == <<rt_top_k, rt_category, rt_threshold>>

\* embedder.embed_texts(&[query])? failed
RetrieveEmbedFail ==
    /\ rtpc = "call"
    /\ rtpc' = "failed"
    /\ UNCHANGED <<rt_params, rt_options, rt_result, retrieved_chunks>>
    /\ UNCHANGED not_retrieve_vars

\* the query is sent to the index
RetrieveQuery ==
    /\ rtpc = "call"
    /\ rt_options' = [n_results |-> query_n(rt_top_k, rt_threshold),
                      where_metadata |-> where_metadata(rt_category)]
    /\ rtpc' = "query"
    /\ UNCHANGED <<rt_params, rt_result, retrieved_chunks>>
    /\ UNCHANGED not_retrieve_vars

\* collection.query(query_options, None).await? failed
RetrieveQueryFail ==
    /\ rtpc = "query"
    /\ rtpc' = "failed"
    /\ UNCHANGED <<rt_params, rt_options, rt_result, retrieved_chunks>>
    /\ UNCHANGED not_retrieve_vars

\* the index answered: the documents are filtered and collected
RetrieveCollect ==
    /\ rtpc = "query"
    /\ \E r \in RtResponses(rt_options.n_results) :
          /\ rt_result' = r
          /\ retrieved_chunks' = collect_chunks(r, rt_top_k, rt_threshold, 0, <<>>)
    /\ rtpc' = "done"
    /\ UNCHANGED <<rt_params, rt_options>>
    /\ UNCHANGED not_retrieve_vars

RetrieveNext ==
    RetrieveEmbedFail \/ RetrieveQuery \/ RetrieveQueryFail \/ RetrieveCollect

RetrieveSpec == RetrieveInit /\ [][RetrieveNext]_vars

\* positions of the index's documents that are within the threshold
WithinThreshold ==
    {i \in DOMAIN rt_result.documents :
        rt_threshold.some => ~RLt(rt_threshold.value, rt_result.distances[i])}

\* the first top_k of them
FirstWithin ==
    {i \in WithinThreshold : Cardinality({j \in WithinThreshold : j < i}) < rt_top_k}

RECURSIVE InOrder(_)
InOrder(S) == IF S = {} THEN <<>> ELSE <<SetMin(S)>> \o InOrder(S \ {SetMin(S)})

\* C25: the result has at most top_k chunks, in the index's order, every one
\* within the threshold when one is given, and it is made of the first
\* top_k documents that are within the threshold.
C25_DenseRetrieval ==
    rtpc = "done" =>
        LET kept == InOrder(FirstWithin)
        IN  /\ Len(retrieved_chunks) <= rt_top_k
            /\ Len(retrieved_chunks) = Len(kept)
            /\ \A j \in DOMAIN kept :
                    /\ retrieved_chunks[j].chunk = rt_result.documents[kept[j]]
                    /\ retrieved_chunks[j].distance = rt_result.distances[kept[j]]
            /\ rt_threshold.some =>
                    \A j \in DOMAIN retrieved_chunks :
                        ~RLt(rt_threshold.value, retrieved_chunks[j].distance)

C25_Witness ==
    /\ rtpc = "done"
    /\ rt_threshold.some
    /\ rt_top_k = 2
    /\ Len(retrieved_chunks) = 2
    /\ retrieved_chunks[2].distance = rt_threshold.value
    /\ RLt(retrieved_chunks[1].distance, retrieved_chunks[2].distance)
    /\ Len(rt_result.documents) = 3
    /\ RLt(rt_threshold.value, rt_result.distances[3])

----------------------------------------------------------------------------
(* Date conversion (metadata/src/vector_db.rs).  A date string is a        *)
(* sequence of characters; all years of the model are at or after 1970, so *)
(* every division has non-negative operands and truncates as in Rust.      *)

MaxYear == 1973

DigitChars == <<"0", "1", "2", "3", "4", "5", "6", "7", "8", "9">>

digit_value(c) == (CHOOSE k \in DOMAIN DigitChars : DigitChars[k] = c) - 1

\* str::split(['T', '-', ':']): the pieces between the separators, empty
\* ones included
RECURSIVE split_date(_, _, _, _)
split_date(str, k, cur, acc) ==
    IF k > Len(str) THEN Append(acc, cur)
    ELSE IF str[k] \in {"T", "-", ":"}
         THEN split_date(str, k + 1, <<>>, Append(acc, cur))
         ELSE split_date(str, k + 1, Append(cur, str[k]), acc)

ParseError == -1

\* str::parse of an unsigned decimal number: .ok() is None on anything else
RECURSIVE parse_from(_, _, _)
parse_from(p, k, acc) ==
    IF k > Len(p) THEN acc
    ELSE IF p[k] \notin Digits THEN ParseError
    ELSE parse_from(p, k + 1, acc * 10 + digit_value(p[k]))

parse(p) == IF p = <<>> THEN ParseError ELSE parse_from(p, 1, 0)

NoTimestamp == [some |-> FALSE, value |-> 0]

SomeTimestamp(t) == [some |-> TRUE, value |-> t]

\* match m { 1 => 0, 2 => 31, ..., 12 => 334 }
month_offsets(m) ==
    <<0, 31, 59, 90, 120, 151, 181, 212, 243, 273, 304, 334>>[m]

\* fn iso8601_to_timestamp
iso8601_to_timestamp(str) ==
    LET parts == split_date(str, 1, <<>>, <<>>)
    IN  IF Len(parts) # 6 THEN NoTimestamp
        ELSE LET y == parse(parts[1])
                 m == parse(parts[2])
                 d == parse(parts[3])
                 hour == parse(parts[4])
                 min == parse(parts[5])
                 sec == parse(parts[6])
             IN  IF ParseError \in {y, m, d, hour, min, sec} THEN NoTimestamp
                 ELSE IF m \notin 1..12 THEN NoTimestamp
                 ELSE LET days == (y - 1970) * 365 + ((y - 1969) \div 4)
                                   - ((y - 1901) \div 100) + ((y - 1601) \div 400)
                                   + month_offsets(m) + d - 1
                      IN  SomeTimestamp(days * 86400 + hour * 3600 + min * 60 + sec)

is_leap(y) == (y % 4 = 0 /\ y % 100 # 0) \/ y % 400 = 0

\* loop { if d >= leap { d -= leap; y += 1 } else { break } }
RECURSIVE year_of(_, _)
year_of(y, d) ==
    LET leap == IF is_leap(y) THEN 366 ELSE 365
    IN  IF d >= leap THEN year_of(y + 1, d - leap) ELSE [y |-> y, d |-> d]

month_days(y) ==
    <<31, IF is_leap(y) THEN 29 ELSE 28, 31, 30, 31, 30, 31, 31, 30, 31, 30, 31>>

\* for md in &month_days { if d + 1 > *md { d -= md; m += 1 } else { break } }
RECURSIVE month_of(_, _, _)
month_of(mds, m, d) ==
    IF m <= Len(mds) /\ d + 1 > mds[m]
    THEN month_of(mds, m + 1, d - mds[m])
    ELSE [m |-> m, d |-> d]

RECURSIVE digits_of(_)
digits_of(n) ==
    IF n < 10 THEN <<DigitChars[n + 1]>>
    ELSE digits_of(n \div 10) \o <<DigitChars[(n % 10) + 1]>>

\* format!("{:0width}", n) for n >= 0
RECURSIVE pad(_, _)
pad(ds, width) == IF Len(ds) >= width THEN ds ELSE pad(<<"0">> \o ds, width)

zero_padded(n, width) == pad(digits_of(n), width)

\* fn timestamp_to_iso8601, for ts >= 0
timestamp_to_iso8601(ts) ==
    LET days == ts \div 86400
        seconds == ts - days * 86400
        hour == seconds \div 3600
        min == (seconds - hour * 3600) \div 60
        sec == seconds - hour * 3600 - min * 60
        yd == year_of(1970, days)
        md == month_of(month_days(yd.y), 1, yd.d)
        day == md.d + 1
    IN  zero_padded(yd.y, 4) \o <<"-">> \o zero_padded(md.m, 2) \o <<"-">>
            \o zero_padded(day, 2) \o <<"T">> \o zero_padded(hour, 2) \o <<":">>
            \o zero_padded(min, 2) \o <<":">> \o zero_padded(sec, 2)

----------------------------------------------------------------------------
(* Specification of the date conversion *)

Years == (1970..MaxYear) \cup {2000}

Times == {<<0, 0, 0>>, <<23, 59, 59>>}

DateString(y, m, d, t) ==
    zero_padded(y, 4) \o <<"-">> \o zero_padded(m, 2) \o <<"-">> \o zero_padded(d, 2)
        \o <<"T">> \o zero_padded(t[1], 2) \o <<":">> \o zero_padded(t[2], 2)
        \o <<":">> \o zero_padded(t[3], 2)

\* the valid date-times of the model, as strings
ValidDates ==
    UNION {{DateString(y, m, d, t) : d \in 1..month_days(y)[m], t \in Times} :
           y \in Years, m \in 1..12}

\* strings that are no date-time: too few parts, a month out of range, a
\* part that is no number
InvalidDates == {
    <<"1", "9", "7", "2", "-", "0", "3", "-", "0", "1">>,
    <<"1", "9", "7", "2", "-", "1", "3", "-", "0", "1", "T", "0", "0", ":", "0", "0", ":", "0", "0">>,
    <<"1", "9", "7", "2", "-", "0", "3", "-", "0", "x", "T", "0", "0", ":", "0", "0", ":", "0", "0">>}

DateInit ==
    /\ CoreIdle
    /\ FixedIdle /\ LoadIdle /\ RetrieveIdle /\ SearchIdle
    /\ date_str \in ValidDates \cup InvalidDates
    /\ timestamp = NoTimestamp
    /\ iso = <<>>
    /\ dpc = "call"

DateToTimestamp ==
    /\ dpc = "call"
    /\ timestamp' = iso8601_to_timestamp(date_str)
    /\ dpc' = IF timestamp'.some THEN "converted" ELSE "invalid"
    /\ UNCHANGED <<date_str, iso>>
    /\ UNCHANGED not_date_vars

TimestampToDate ==
    /\ dpc = "converted"
    /\ iso' = timestamp_to_iso8601(timestamp.value)
    /\ dpc' = "done"
    /\ UNCHANGED <<date_str, timestamp>>
    /\ UNCHANGED not_date_vars

DateNext == DateToTimestamp \/ TimestampToDate

DateSpec == DateInit /\ [][DateNext]_vars

\* C26: every valid date-time string at or after 1970-01-01T00:00:00 is
\* converted to a timestamp and back to itself.
C26_DateRoundTrip ==
    /\ (dpc \in {"converted", "invalid", "done"} /\ date_str \in ValidDates) => timestamp.some
    /\ (dpc = "done" /\ date_str \in ValidDates) => iso = date_str

----------------------------------------------------------------------------
(* metadata_enhanced_search (metadata/src/vector_db.rs) *)

MaxSearchTopK == 2

NoMinDate == [some |-> FALSE, value |-> <<>>]

SomeMinDate(str) == [some |-> TRUE, value |-> str]

NoCategories == [some |-> FALSE, value |-> <<>>]

SomeCategories(cats) == [some |-> TRUE, value |-> cats]

\* min_date.and_then(|date_str| iso8601_to_timestamp(date_str))
min_date_timestamp(md) ==
    IF md.some THEN iso8601_to_timestamp(md.value) ELSE NoTimestamp

\* the JSON where-clause: "none" for None, "and" for {"$and": [category $in,
\* date $gte]}, "category" for {"category": {"$in": cats}}, "date" for
\* {"date": {"$gte": timestamp}}
WhereClause(kind, cats, gte) == [kind |-> kind, category_in |-> cats, date_gte |-> gte]

\* match (categories, min_date_timestamp)
build_where_clause(categories, ts) ==
    IF categories.some /\ ts.some THEN WhereClause("and", categories.value, ts.value)
    ELSE IF categories.some THEN WhereClause("category", categories.value, 0)
    ELSE IF ts.some THEN WhereClause("date", <<>>, ts.value)
    ELSE WhereClause("none", <<>>, 0)

NoMetadata == [present |-> FALSE, doc_id |-> NoDocId, category |-> NoCategory,
               date |-> NoTimestamp]

Metadata(id, category, date) ==
    [present |-> TRUE, doc_id |-> id, category |-> category, date |-> date]

\* the RetrievedChunk built for document i of the answer
search_chunk(result, i) ==
    LET md == IF i + 1 \in DOMAIN result.metadatas
              THEN result.metadatas[i + 1] ELSE NoMetadata
    IN  [chunk |-> result.documents[i + 1],
         doc_id |-> IF md.doc_id # NoDocId THEN md.doc_id ELSE i,
         category |-> md.category,
         distance |-> IF i + 1 \in DOMAIN result.distances
                      THEN result.distances[i + 1] ELSE Zero,
         date |-> IF md.date.some
                  THEN SomeMinDate(timestamp_to_iso8601(md.date.value))
                  ELSE NoMinDate]

search_chunks(result) ==
    [k \in 1..Len(result.documents) |-> search_chunk(result, k - 1)]

SearchCategories ==
    {NoCategories, SomeCategories(<<"hr">>), SomeCategories(<<"hr", "it">>)}

SearchDates ==
    {NoMinDate}
        \cup {SomeMinDate(DateString(1971, 6, 15, <<0, 0, 0>>)),
              SomeMinDate(DateString(1972, 2, 29, <<23, 59, 59>>))}
        \cup {SomeMinDate(str) : str \in InvalidDates}

SearchMetadatas ==
    {NoMetadata, Metadata(7, "hr", SomeTimestamp(86400)),
     Metadata(NoDocId, NoCategory, NoTimestamp)}

SearchResponses(n) ==
    UNION {
        {[documents |-> [k \in 1..m |-> k], distances |-> d, metadatas |-> md] :
            d \in {x \in [1..m -> RtDistances] : Ascending(x)},
            md \in [1..m -> SearchMetadatas]} :
        m \in 0..n}

SearchInit ==
    /\ CoreIdle
    /\ FixedIdle /\ LoadIdle /\ RetrieveIdle /\ DateIdle
    /\ md_categories \in SearchCategories
    /\ min_date \in SearchDates
    /\ md_top_k \in 0..MaxSearchTopK
    /\ where_clause = WhereClause("none", <<>>, 0)
    /\ md_result = <<>>
    /\ md_chunks = <<>>
    /\ mpc = "call"

md_params == <<md_categories, min_date, md_top_k>>

\* embedder.embed_texts(&[query])? failed
SearchEmbedFail ==
    /\ mpc = "call"
    /\ mpc' = "failed"
    /\ UNCHANGED <<md_params, where_clause, md_result, md_chunks>>
    /\ UNCHANGED not_search_vars

\* the where-clause is built and the query is sent to the index
SearchQuery ==
    /\ mpc = "call"
    /\ where_clause' = build_where_clause(md_categories, min_date_timestamp(min_date))
    /\ mpc' = "query"
    /\ UNCHANGED <<md_params, md_result, md_chunks>>
    /\ UNCHANGED not_search_vars

\* collection.query(query_options, None).await? failed
SearchQueryFail ==
    /\ mpc = "query"
    /\ mpc' = "failed"
    /\ UNCHANGED <<md_params, where_clause, md_result, md_chunks>>
    /\ UNCHANGED not_search_vars

\* the index answered with at most n_results = top_k documents
SearchAnswer ==
    /\ mpc = "query"
    /\ \E r \in SearchResponses(md_top_k) :
          /\ md_result' = r
          /\ md_chunks' = search_chunks(r)
    /\ mpc' = "done"
    /\ UNCHANGED <<md_params, where_clause>>
    /\ UNCHANGED not_search_vars

SearchNext == SearchEmbedFail \/ SearchQuery \/ SearchQueryFail \/ SearchAnswer

SearchSpec == SearchInit /\ [][SearchNext]_vars

\* C27: the where-clause sent to the index has a date condition exactly
\* when min_date is given, joined to the category condition by $and when
\* categories are given too.
C27_DateFilterApplied ==
    mpc \in {"query", "done"} =>
        /\ min_date.some <=> where_clause.kind \in {"and", "date"}
        /\ (min_date.some /\ md_categories.some) => where_clause.kind = "and"

====
